---------------------------- MODULE Spec2Model ----------------------------
(***************************************************************************)
(* Model of src/src/main.cpp: the websocket message handler of the MPC     *)
(* controller bridge (hasData, polyeval, polyfit, global2car and the       *)
(* onMessage lambda of main).                                              *)
(*                                                                         *)
(* Numbers.  A C++ double is modelled by an exact rational <<n, d>> with   *)
(* d > 0 in lowest terms, so every + - * / of the source is the exact      *)
(* operation on rationals (rounding is abstracted).  sin and cos are the   *)
(* rational parametrisation of the unit circle with t = a / 2, which keeps *)
(* sin^2 + cos^2 = 1, sin(0) = 0 and cos(0) = 1 exactly; atan is the       *)
(* rational approximation x / (1 + 0.28 x^2).                              *)
(*                                                                         *)
(* Text.  A std::string is a sequence of fragments: the single characters  *)
(* that hasData and the "42" test look at, and opaque atoms for a quoted   *)
(* JSON string or the body of the data object (atoms hold none of "null",  *)
(* "[" or "}]").                                                           *)
(***************************************************************************)
EXTENDS Integers, Sequences, FiniteSets, TLC

VARIABLES
    pc,             \* position of the onMessage handler ("idle" between messages)
    cycles,         \* number of messages received so far
    cur,            \* the message being handled (sdata and its decoded object)
    ptsx, ptsy,     \* main.cpp:102-103
    px, py, psi,    \* main.cpp:104-106, updated at 117-119
    v,              \* main.cpp:107, updated at 111 and 120
    delta,          \* main.cpp:108, negated at 112
    acceleration,   \* main.cpp:109
    way_pts_x, way_pts_y,   \* main.cpp:122-131
    coeffs,         \* main.cpp:135
    state,          \* main.cpp:157-158
    solveOk,        \* whether the solve of this cycle converged (not visible to the handler)
    result,         \* main.cpp:165
    msg,            \* the "steer" payload assembled at main.cpp:171-212
    sent,           \* replies passed to ws.send while handling cur
    prevCmd,        \* the last steer command sent by an earlier cycle (<<>> if none)
    stages,         \* the stages of the telemetry branch run so far for cur
    oob             \* result was indexed at or past its size() while handling cur

vars == <<pc, cycles, cur, ptsx, ptsy, px, py, psi, v, delta, acceleration,
          way_pts_x, way_pts_y, coeffs, state, solveOk, result, msg, sent,
          prevCmd, stages, oob>>

-----------------------------------------------------------------------------
(* Bounds of the model *)

MaxCycles == 2

-----------------------------------------------------------------------------
(* double arithmetic, as exact rationals *)

Abs(n) == IF n < 0 THEN -n ELSE n

RECURSIVE GCD(_, _)
GCD(a, b) == IF b = 0 THEN a ELSE GCD(b, a % b)

Norm(n, d) ==
    LET s == IF d < 0 THEN -1 ELSE 1
        g == GCD(Abs(n), Abs(d))
    IN  <<(s * n) \div g, (s * d) \div g>>

R(n) == <<n, 1>>

Q(n, d) == Norm(n, d)

RAdd(a, b) ==
    LET g == GCD(a[2], b[2])
        l == (a[2] \div g) * b[2]
    IN  Norm(a[1] * (l \div a[2]) + b[1] * (l \div b[2]), l)

RNeg(a) == <<-a[1], a[2]>>

RSub(a, b) == RAdd(a, RNeg(b))

RMul(a, b) ==
    LET g1 == GCD(Abs(a[1]), b[2])
        g2 == GCD(Abs(b[1]), a[2])
    IN  Norm((a[1] \div g1) * (b[1] \div g2), (a[2] \div g2) * (b[2] \div g1))

RDiv(a, b) == RMul(a, Norm(b[2], b[1]))

RLe(a, b) == RSub(b, a)[1] >= 0

RLt(a, b) == RSub(b, a)[1] > 0

\* pow(x, i) of <math.h> for an integer exponent i >= 0; pow(x, 0) = 1 for every x
RECURSIVE Pow(_, _)
Pow(x, i) == IF i = 0 THEN R(1) ELSE RMul(x, Pow(x, i - 1))

\* cos and sin of <math.h>: the point of the unit circle with half-angle tangent a/2
Cos(a) == RDiv(RSub(R(4), RMul(a, a)), RAdd(R(4), RMul(a, a)))

Sin(a) == RDiv(RMul(R(4), a), RAdd(R(4), RMul(a, a)))

\* atan of <math.h>, by x / (1 + 0.28 x^2)
Atan(x) == RDiv(x, RAdd(R(1), RMul(Q(7, 25), RMul(x, x))))

\* M_PI, by 355/113
pi == Q(355, 113)

deg2rad(x) == RDiv(RMul(x, pi), R(180))

\* size_t arithmetic wraps; the width is scaled from 64 to 30 bits so that the
\* wrapped values stay inside TLC's integers
SizeMod == 2 ^ 30

SizeT(n) == n % SizeMod

npos == SizeMod - 1

-----------------------------------------------------------------------------
(* std::string operations used by hasData *)

Min(a, b) == IF a < b THEN a ELSE b

\* s.substr(pos, n), positions counted from 0
Substr(s, pos, n) == SubSeq(s, pos + 1, pos + Min(n, Len(s) - pos))

Occurs(s, pat, i) ==
    /\ i + Len(pat) <= Len(s)
    /\ \A k \in 1..Len(pat) : s[i + k] = pat[k]

\* s.find(pat): the first position where pat occurs, or npos
Find(s, pat) ==
    LET hits == {i \in 0..Len(s) : Occurs(s, pat, i)}
    IN  IF hits = {} THEN npos ELSE CHOOSE i \in hits : \A j \in hits : i <= j

\* s.rfind(pat): the last position where pat occurs, or npos
RFind(s, pat) ==
    LET hits == {i \in 0..Len(s) : Occurs(s, pat, i)}
    IN  IF hits = {} THEN npos ELSE CHOOSE i \in hits : \A j \in hits : j <= i

hasData(s) ==
    LET found_null == Find(s, <<"n", "u", "l", "l">>)
        b1 == Find(s, <<"[">>)
        b2 == RFind(s, <<"}", "]">>)
    IN  IF found_null # npos THEN <<>>
        ELSE IF b1 # npos /\ b2 # npos THEN Substr(s, b1, SizeT(b2 - b1 + 2))
        ELSE <<>>

-----------------------------------------------------------------------------
(* polyeval, polyfit, global2car *)

RECURSIVE PolyevalLoop(_, _, _, _)
PolyevalLoop(cs, x, i, acc) ==
    IF i < Len(cs)
    THEN PolyevalLoop(cs, x, i + 1, RAdd(acc, RMul(cs[i + 1], Pow(x, i))))
    ELSE acc

\* polyeval with its loop started at i = 1
polyevalSkipsConstant(cs, x) == PolyevalLoop(cs, x, 1, R(0))

polyeval(cs, x) == PolyevalLoop(cs, x, 0, R(0))

\* the two asserts of polyfit
PolyfitAsserts(xvals, yvals, order) ==
    /\ Len(xvals) = Len(yvals)
    /\ order >= 1
    /\ order <= Len(xvals) - 1

\* one row of the matrix A of polyfit: A(j, 0) = 1, A(j, i + 1) = A(j, i) * xvals(j)
RECURSIVE VandermondeRow(_, _, _)
VandermondeRow(x, order, row) ==
    IF Len(row) = order + 1 THEN row
    ELSE VandermondeRow(x, order, Append(row, RMul(row[Len(row)], x)))

Vandermonde(xvals, order) ==
    [j \in 1..Len(xvals) |-> VandermondeRow(xvals[j], order, <<R(1)>>)]

\* the coefficient values the least-squares solve ranges over
CoeffVals == <<R(0), R(1), R(-1)>>

\* the k-th vector of the coefficient grid, k in 0 .. Len(CoeffVals)^cols - 1
GridAt(k, cols) ==
    [i \in 1..cols |-> CoeffVals[((k \div (Len(CoeffVals) ^ (i - 1))) % Len(CoeffVals)) + 1]]

RECURSIVE RSum(_, _)
RSum(f, n) == IF n = 0 THEN R(0) ELSE RAdd(RSum(f, n - 1), f[n])

\* || A c - y ||^2
Residual(A, y, c) ==
    LET cols == Len(c)
        r == [j \in 1..Len(A) |->
                 RSub(RSum([i \in 1..cols |-> RMul(A[j][i], c[i])], cols), y[j])]
    IN  RSum([j \in 1..Len(A) |-> RMul(r[j], r[j])], Len(A))

\* the entry <<residual, k>> of S that is least, ties to the smallest k
Least(S) ==
    CHOOSE p \in S : \A q \in S :
        \/ RLt(p[1], q[1])
        \/ (p[1] = q[1] /\ p[2] <= q[2])

\* A.householderQr().solve(yvals) of Eigen: the least-squares solution of A c = y,
\* taken over the coefficient grid
HouseholderQrSolve(A, y, cols) ==
    LET S == {<<Residual(A, y, GridAt(k, cols)), k>> :
                 k \in 0..(Len(CoeffVals) ^ cols - 1)}
    IN  GridAt(Least(S)[2], cols)

polyfit(xvals, yvals, order) ==
    HouseholderQrSolve(Vandermonde(xvals, order), yvals, order + 1)

\* global2car with the sign of the dx * sin_psi term of y_car lost
global2carSignSlip(psi_, px_, py_, x_global, y_global) ==
    LET dx == RSub(x_global, px_)
        dy == RSub(y_global, py_)
        sin_psi == Sin(psi_)
        cos_psi == Cos(psi_)
        x_car == RAdd(RMul(dx, cos_psi), RMul(dy, sin_psi))
        y_car == RAdd(RMul(dx, sin_psi), RMul(dy, cos_psi))
    IN  <<x_car, y_car>>

global2car(psi_, px_, py_, x_global, y_global) ==
    LET dx == RSub(x_global, px_)
        dy == RSub(y_global, py_)
        sin_psi == Sin(psi_)
        cos_psi == Cos(psi_)
        x_car == RAdd(RMul(dx, cos_psi), RMul(dy, sin_psi))
        y_car == RAdd(RMul(RNeg(dx), sin_psi), RMul(dy, cos_psi))
    IN  <<x_car, y_car>>

-----------------------------------------------------------------------------
(* Program constants of the telemetry branch *)

MphToMps == Q(44704, 100000)

latency == Q(1, 10)

Lf == Q(267, 100)

FitOrder == 3

MaxSteerDeg == 25

-----------------------------------------------------------------------------
(* json::parse and the fields of the data object *)

TelemetryEvent == "\"telemetry\""

OtherEvent == "\"status\""

\* json::parse(s): the array [event, {object}] or a parse_error exception
JsonParse(s) ==
    IF /\ Len(s) = 7
       /\ s[1] = "[" /\ s[2] \in {TelemetryEvent, OtherEvent} /\ s[3] = ","
       /\ s[4] = "{" /\ s[5] = "D" /\ s[6] = "}" /\ s[7] = "]"
    THEN [ok |-> TRUE, event |-> s[2]]
    ELSE [ok |-> FALSE, event |-> ""]

Fields == {"ptsx", "ptsy", "x", "y", "psi", "speed", "steering_angle", "throttle"}

\* j[1][key] converts to vector<double> / double only when the key holds a value
FieldsConvert(d) == Fields \subseteq d.present

-----------------------------------------------------------------------------
(* The messages the simulator side can deliver *)

Frame(event) == <<"4", "2", "[", event, ",", "{", "D", "}", "]">>

\* waypoint lists in the global frame: three, four and six points
Waypoints3 == [x |-> <<R(0), R(1), R(2)>>, y |-> <<R(1), R(2), R(3)>>]

Waypoints4 == [x |-> <<R(0), R(1), R(2), R(3)>>, y |-> <<R(1), R(2), R(3), R(4)>>]

Waypoints6 == [x |-> <<R(0), R(1), R(2), R(3), R(4), R(5)>>,
               y |-> <<R(0), R(0), R(0), R(0), R(0), R(0)>>]

Poses == {[x |-> R(0), y |-> R(0), psi |-> R(0)],
          [x |-> R(1), y |-> R(0), psi |-> R(2)]}

\* mph: 0 and the speed that is 10 m/s
Speeds == {R(0), Q(31250, 1397)}

SteeringAngles == {R(0), Q(-267, 50)}

Throttles == {R(0), R(1)}

Data(w, p, s, a, t) ==
    [ptsx |-> w.x, ptsy |-> w.y, x |-> p.x, y |-> p.y, psi |-> p.psi,
     speed |-> s, steering_angle |-> a, throttle |-> t, present |-> Fields]

\* every pose, speed, steering angle and throttle with four waypoints, and every
\* pose and speed with three and with six
CompleteData ==
    {Data(Waypoints4, p, s, a, t) :
        p \in Poses, s \in Speeds, a \in SteeringAngles, t \in Throttles}
    \cup {Data(w, p, s, R(0), R(1)) :
        w \in {Waypoints3, Waypoints6}, p \in Poses, s \in Speeds}

\* a data object without its "speed" key
IncompleteData ==
    {[ptsx |-> Waypoints4.x, ptsy |-> Waypoints4.y, x |-> R(0), y |-> R(0),
      psi |-> R(0), speed |-> R(0), steering_angle |-> R(0), throttle |-> R(0),
      present |-> Fields \ {"speed"}]}

NoData ==
    [ptsx |-> <<>>, ptsy |-> <<>>, x |-> R(0), y |-> R(0), psi |-> R(0),
     speed |-> R(0), steering_angle |-> R(0), throttle |-> R(0), present |-> {}]

OtherTexts ==
    { <<"4", "2">>,                                              \* 42
      <<"2">>,                                                   \* 2
      <<"4", "0", "[", TelemetryEvent, ",", "{", "D", "}", "]">>,  \* 40[...]
      <<"4", "2", "[", TelemetryEvent, ",", "n", "u", "l", "l", "]">>,
      <<"4", "2", "x">>,                                         \* no "["
      <<"4", "2", "[", TelemetryEvent, ",", "{", "D", "}">>,     \* no "}]"
      <<"4", "2", "}", "]", "[">>,                               \* "}]" right before "["
      <<"4", "2", "}", "]", "x", "[">>,                          \* "}]" well before "["
      Frame(OtherEvent) }

Messages ==
    {[text |-> Frame(TelemetryEvent), data |-> d] : d \in CompleteData \cup IncompleteData}
    \cup {[text |-> t, data |-> NoData] : t \in OtherTexts}

NoMessage == [text |-> <<>>, data |-> NoData]

-----------------------------------------------------------------------------
(* MPC::Solve: the vector it returns, of length 0 to 6, with values inside    *)
(* (1/4) and outside (2) the actuator bounds; the handler sees only the vector *)

InBounds == Q(1, 4)

OutOfBounds == R(2)

SolveVectors ==
    { <<>>,
      <<InBounds>>,
      <<InBounds, InBounds>>,
      <<OutOfBounds, InBounds>>,
      <<InBounds, OutOfBounds>>,
      <<InBounds, InBounds, OutOfBounds>>,
      <<InBounds, InBounds, InBounds, OutOfBounds>>,
      <<InBounds, InBounds, InBounds, OutOfBounds, InBounds>>,
      <<InBounds, InBounds, InBounds, OutOfBounds, OutOfBounds, InBounds>> }

-----------------------------------------------------------------------------
(* The onMessage handler *)

\* the telemetry branch with the prediction moved after the fit
StageOrderFitFirst ==
    <<"transform", "fit", "latency", "state", "solve", "post", "delay", "send">>

\* the statements of the telemetry branch, in source order
StageOrder ==
    <<"latency", "transform", "fit", "state", "solve", "post", "delay", "send">>

StageIndex(s) == CHOOSE i \in 1..Len(StageOrder) : StageOrder[i] = s

\* where control goes when stage s is done
After(s) ==
    IF StageIndex(s) = Len(StageOrder) THEN "idle" ELSE StageOrder[StageIndex(s) + 1]

ManualReply == [event |-> "manual"]

\* the steer command of the last reply of an invocation, if it sent one
LastCommand(replies, before) ==
    IF replies # <<>> /\ replies[Len(replies)].event = "steer"
    THEN <<[steering_angle |-> replies[Len(replies)].steering_angle,
            throttle |-> replies[Len(replies)].throttle]>>
    ELSE before

Locals(d) ==
    /\ ptsx' = d.ptsx
    /\ ptsy' = d.ptsy
    /\ px' = d.x
    /\ py' = d.y
    /\ psi' = d.psi
    /\ v' = d.speed
    /\ delta' = d.steering_angle
    /\ acceleration' = d.throttle
    /\ way_pts_x' = <<>>
    /\ way_pts_y' = <<>>
    /\ coeffs' = <<>>
    /\ state' = <<>>
    /\ solveOk' = TRUE
    /\ result' = <<>>
    /\ msg' = ManualReply
    /\ stages' = <<>>
    /\ oob' = FALSE

Init ==
    /\ pc = "idle"
    /\ cycles = 0
    /\ cur = NoMessage
    /\ ptsx = <<>> /\ ptsy = <<>>
    /\ px = R(0) /\ py = R(0) /\ psi = R(0) /\ v = R(0)
    /\ delta = R(0) /\ acceleration = R(0)
    /\ way_pts_x = <<>> /\ way_pts_y = <<>>
    /\ coeffs = <<>> /\ state = <<>>
    /\ solveOk = TRUE
    /\ result = <<>>
    /\ msg = ManualReply
    /\ sent = <<>>
    /\ prevCmd = <<>>
    /\ stages = <<>>
    /\ oob = FALSE

\* main.cpp:93-109 and 226-231: the tests on sdata, hasData, json::parse, the
\* event test, the extraction of the fields, and the "manual" reply
Receive(m) ==
    /\ pc = "idle"
    /\ cycles < MaxCycles
    /\ cycles' = cycles + 1
    /\ cur' = m
    /\ prevCmd' = LastCommand(sent, prevCmd)
    /\ LET sdata == m.text
           s == hasData(sdata)
           j == JsonParse(s)
       IN  IF Len(sdata) > 2 /\ sdata[1] = "4" /\ sdata[2] = "2"
           THEN IF s # <<>>
                THEN IF ~j.ok
                     THEN pc' = "crashed" /\ sent' = <<>> /\ Locals(NoData)
                     ELSE IF j.event = TelemetryEvent
                     THEN IF FieldsConvert(m.data)
                          THEN pc' = StageOrder[1] /\ sent' = <<>> /\ Locals(m.data)
                          ELSE pc' = "crashed" /\ sent' = <<>> /\ Locals(NoData)
                     ELSE pc' = "idle" /\ sent' = <<>> /\ Locals(NoData)
                ELSE pc' = "idle" /\ sent' = <<ManualReply>> /\ Locals(NoData)
           ELSE pc' = "idle" /\ sent' = <<>> /\ Locals(NoData)

\* the prediction with the speed factor of the position and heading terms lost
PredictIgnoresSpeed(x, y, heading, speed, steering, throttle) ==
    LET v1 == RMul(speed, MphToMps)
        delta1 == RNeg(steering)
    IN  [px |-> RAdd(x, RMul(Cos(heading), latency)),
         py |-> RAdd(y, RMul(Sin(heading), latency)),
         psi |-> RAdd(heading, RMul(RDiv(delta1, Lf), latency)),
         v |-> RAdd(v1, RMul(throttle, latency)),
         delta |-> delta1]

\* main.cpp:111-120: the unit and sign conversions, then the kinematic prediction
\* over the latency
Predict(x, y, heading, speed, steering, throttle) ==
    LET v1 == RMul(speed, MphToMps)
        delta1 == RNeg(steering)
    IN  [px |-> RAdd(x, RMul(RMul(v1, Cos(heading)), latency)),
         py |-> RAdd(y, RMul(RMul(v1, Sin(heading)), latency)),
         psi |-> RAdd(heading, RMul(RDiv(RMul(v1, delta1), Lf), latency)),
         v |-> RAdd(v1, RMul(throttle, latency)),
         delta |-> delta1]

Latency ==
    /\ pc = "latency"
    /\ LET p == Predict(px, py, psi, v, delta, acceleration)
       IN  /\ px' = p.px
           /\ py' = p.py
           /\ psi' = p.psi
           /\ v' = p.v
           /\ delta' = p.delta
    /\ stages' = Append(stages, "latency")
    /\ pc' = After("latency")
    /\ UNCHANGED <<cycles, cur, ptsx, ptsy, acceleration, way_pts_x, way_pts_y,
                   coeffs, state, solveOk, result, msg, sent, prevCmd, oob>>

\* main.cpp:122-131 (ptsy is as long as ptsx in every message of the model)
Transform ==
    /\ pc = "transform"
    /\ way_pts_x' = [i \in 1..Len(ptsx) |-> global2car(psi, px, py, ptsx[i], ptsy[i])[1]]
    /\ way_pts_y' = [i \in 1..Len(ptsx) |-> global2car(psi, px, py, ptsx[i], ptsy[i])[2]]
    /\ stages' = Append(stages, "transform")
    /\ pc' = After("transform")
    /\ UNCHANGED <<cycles, cur, ptsx, ptsy, px, py, psi, v, delta, acceleration,
                   coeffs, state, solveOk, result, msg, sent, prevCmd, oob>>

\* main.cpp:135: a failed assert aborts, or is compiled out under NDEBUG
Fit ==
    /\ pc = "fit"
    /\ \/ /\ ~PolyfitAsserts(way_pts_x, way_pts_y, FitOrder)
          /\ pc' = "crashed"
          /\ coeffs' = coeffs
       \/ /\ coeffs' = polyfit(way_pts_x, way_pts_y, FitOrder)
          /\ pc' = After("fit")
    /\ stages' = Append(stages, "fit")
    /\ UNCHANGED <<cycles, cur, ptsx, ptsy, px, py, psi, v, delta, acceleration,
                   way_pts_x, way_pts_y, state, solveOk, result, msg, sent,
                   prevCmd, oob>>

\* main.cpp:139-158
BuildState ==
    /\ pc = "state"
    /\ LET cte == polyeval(coeffs, R(0))
           epsi == RNeg(Atan(coeffs[2]))
       IN  state' = <<R(0), R(0), R(0), v, cte, epsi>>
    /\ stages' = Append(stages, "state")
    /\ pc' = After("state")
    /\ UNCHANGED <<cycles, cur, ptsx, ptsy, px, py, psi, v, delta, acceleration,
                   way_pts_x, way_pts_y, coeffs, solveOk, result, msg, sent,
                   prevCmd, oob>>

\* main.cpp:165
Solve ==
    /\ pc = "solve"
    /\ \E ok \in BOOLEAN, r \in SolveVectors :
          /\ solveOk' = ok
          /\ result' = r
    /\ stages' = Append(stages, "solve")
    /\ pc' = After("solve")
    /\ UNCHANGED <<cycles, cur, ptsx, ptsy, px, py, psi, v, delta, acceleration,
                   way_pts_x, way_pts_y, coeffs, state, msg, sent, prevCmd, oob>>

\* main.cpp:183
TrajectoryLen(L) == SizeT(L - 2) \div 2

\* the largest index of result that main.cpp:168-187 reads
MaxIndexRead(L) ==
    IF TrajectoryLen(L) = 0 THEN 1 ELSE (TrajectoryLen(L) - 1) + TrajectoryLen(L) + 2

\* main.cpp:203: i = 0, 2, ..., 98, numbered k = 1 .. 50
NextX(k) == R(2 * (k - 1))

\* main.cpp:168-212
Post ==
    /\ pc = "post"
    /\ IF MaxIndexRead(Len(result)) >= Len(result)
       THEN /\ oob' = TRUE
            /\ pc' = "crashed"
            /\ msg' = msg
       ELSE /\ LET steer_value == RNeg(result[1])
                   throttle_value == result[2]
                   n == TrajectoryLen(Len(result))
               IN  msg' = [event |-> "steer",
                           steering_angle |-> RDiv(steer_value, deg2rad(R(MaxSteerDeg))),
                           throttle |-> throttle_value,
                           mpc_x |-> [i \in 1..n |-> result[(i - 1) + 2 + 1]],
                           mpc_y |-> [i \in 1..n |-> result[(i - 1) + n + 2 + 1]],
                           next_x |-> [k \in 1..50 |-> NextX(k)],
                           next_y |-> [k \in 1..50 |-> polyeval(coeffs, NextX(k))]]
            /\ pc' = After("post")
            /\ oob' = oob
    /\ stages' = Append(stages, "post")
    /\ UNCHANGED <<cycles, cur, ptsx, ptsy, px, py, psi, v, delta, acceleration,
                   way_pts_x, way_pts_y, coeffs, state, solveOk, result, sent,
                   prevCmd>>

\* main.cpp:223
Delay ==
    /\ pc = "delay"
    /\ stages' = Append(stages, "delay")
    /\ pc' = After("delay")
    /\ UNCHANGED <<cycles, cur, ptsx, ptsy, px, py, psi, v, delta, acceleration,
                   way_pts_x, way_pts_y, coeffs, state, solveOk, result, msg,
                   sent, prevCmd, oob>>

\* main.cpp:224
Send ==
    /\ pc = "send"
    /\ sent' = Append(sent, msg)
    /\ stages' = Append(stages, "send")
    /\ pc' = After("send")
    /\ UNCHANGED <<cycles, cur, ptsx, ptsy, px, py, psi, v, delta, acceleration,
                   way_pts_x, way_pts_y, coeffs, state, solveOk, result, msg,
                   prevCmd, oob>>

Next ==
    \/ \E m \in Messages : Receive(m)
    \/ Latency
    \/ Transform
    \/ Fit
    \/ BuildState
    \/ Solve
    \/ Post
    \/ Delay
    \/ Send

Spec == Init /\ [][Next]_vars

-----------------------------------------------------------------------------
(* global2car on its own: the loop of main.cpp:127-131 applied to one pose and *)
(* one global point drawn from a grid                                          *)

MaxCoord == 1

MaxAngle == 3

Coords == {R(k) : k \in (-MaxCoord)..MaxCoord}

InitG2C ==
    /\ pc = "transform"
    /\ cycles = 1
    /\ cur = NoMessage
    /\ \E a \in (-MaxAngle)..MaxAngle : psi = R(a)
    /\ px \in Coords /\ py \in Coords
    /\ \E x \in Coords, y \in Coords : ptsx = <<x>> /\ ptsy = <<y>>
    /\ v = R(0) /\ delta = R(0) /\ acceleration = R(0)
    /\ way_pts_x = <<>> /\ way_pts_y = <<>>
    /\ coeffs = <<>> /\ state = <<>>
    /\ solveOk = TRUE
    /\ result = <<>>
    /\ msg = ManualReply
    /\ sent = <<>>
    /\ prevCmd = <<>>
    /\ stages = <<>>
    /\ oob = FALSE

NextG2C == Transform

SpecG2C == InitG2C /\ [][NextG2C]_vars

-----------------------------------------------------------------------------
(* Properties *)

Range(f) == {f[i] : i \in DOMAIN f}

\* the position of stage s among the stages run so far, 0 if it has not run
Pos(s) == IF s \in Range(stages) THEN CHOOSE i \in DOMAIN stages : stages[i] = s ELSE 0

\* stage b has run only if stage a ran before it
Before(a, b) == Pos(b) # 0 => (Pos(a) # 0 /\ Pos(a) < Pos(b))

IsTelemetry(m) == m.text = Frame(TelemetryEvent)

\* the handler has returned, or the process has terminated
Ended == pc \in {"idle", "crashed"} /\ cur # NoMessage

SteerReplies == {i \in DOMAIN sent : sent[i].event = "steer"}

InUnit(x) == RLe(R(-1), x) /\ RLe(x, R(1))

\* C1: a telemetry message with fewer than FitOrder + 1 waypoints, or without a
\* required field, never terminates the process, never reaches mpc.Solve, and is
\* answered by no command or by the command with steering 0 and throttle 0.
C1_MalformedTelemetryRejected ==
    (/\ IsTelemetry(cur)
     /\ \/ Len(cur.data.ptsx) < FitOrder + 1
        \/ ~FieldsConvert(cur.data))
    => /\ pc # "crashed"
       /\ "solve" \notin Range(stages)
       /\ \A i \in DOMAIN sent :
             /\ sent[i].event = "steer"
             /\ sent[i].steering_angle = R(0)
             /\ sent[i].throttle = R(0)

\* C2: when the solve of a cycle did not converge, the cycle ends with the command
\* of the previous cycle sent again, and the failure itself does not terminate the
\* process.
C2_HoldOnSolveFailure ==
    (~solveOk /\ prevCmd # <<>>)
    => /\ (pc = "crashed" => oob)
       /\ (pc = "idle" => LastCommand(sent, <<>>) = prevCmd)

\* C3: every steer command sent has steering_angle and throttle in [-1, 1].
C3_CommandsClamped ==
    \A i \in SteerReplies :
        InUnit(sent[i].steering_angle) /\ InUnit(sent[i].throttle)

CurPose ==
    Predict(cur.data.x, cur.data.y, cur.data.psi, cur.data.speed,
            cur.data.steering_angle, cur.data.throttle)

C5_OneCommandPerRecord ==
    /\ (Ended /\ stages # <<>>) =>
          /\ Len(sent) = 1
          /\ sent[1].event = "steer"
          /\ "send" \in Range(stages)
          /\ Before("solve", "delay")
          /\ Before("delay", "send")
    /\ stages # <<>> => IsTelemetry(cur)
    /\ pc \notin {"idle", "crashed"} => sent = <<>>

\* C6: the vector passed to mpc.Solve is <<0, 0, 0, v, coeffs[0], -atan(coeffs[1])>>
\* with v the compensated speed and coeffs the fit of the waypoints of the message
\* being handled, in the frame of its compensated pose.
C6_SolverState ==
    pc = "solve" =>
        LET d == cur.data
        IN  /\ Len(state) = 6
            /\ state[1] = R(0) /\ state[2] = R(0) /\ state[3] = R(0)
            /\ state[4] = RAdd(RMul(d.speed, MphToMps), RMul(d.throttle, latency))
            /\ state[5] = coeffs[1]
            /\ state[6] = RNeg(Atan(coeffs[2]))
            /\ coeffs = polyfit(way_pts_x, way_pts_y, FitOrder)
            /\ Len(way_pts_x) = Len(d.ptsx) /\ Len(way_pts_y) = Len(d.ptsx)
            /\ \A i \in DOMAIN way_pts_x :
                  <<way_pts_x[i], way_pts_y[i]>> =
                      global2car(CurPose.psi, CurPose.px, CurPose.py,
                                 d.ptsx[i], d.ptsy[i])

C6_Witness ==
    /\ pc = "solve"
    /\ state[4] # R(0) /\ state[5] # R(0) /\ state[6] # R(0)
    /\ cycles = MaxCycles
    /\ prevCmd # <<>>

Sq(x) == RMul(x, x)

\* C7: global2car keeps the squared distance from the vehicle position, and maps
\* the vehicle position to (0, 0).
C7_RigidIsometry ==
    pc = "fit" =>
        \A i \in DOMAIN way_pts_x :
            /\ RAdd(Sq(way_pts_x[i]), Sq(way_pts_y[i]))
                  = RAdd(Sq(RSub(ptsx[i], px)), Sq(RSub(ptsy[i], py)))
            /\ (ptsx[i] = px /\ ptsy[i] = py)
                  => (way_pts_x[i] = R(0) /\ way_pts_y[i] = R(0))

C7_Witness ==
    /\ pc = "fit"
    /\ psi = R(1)
    /\ ptsx[1] # px /\ ptsy[1] # py
    /\ way_pts_x[1] # RSub(ptsx[1], px)

\* C8: when the telemetry speed is 0, the compensated x, y and heading are the
\* telemetry x, y and heading, and the compensated speed is throttle * 0.1.
C8_ZeroSpeedIdentity ==
    ("latency" \in Range(stages) /\ cur.data.speed = R(0))
    => /\ px = cur.data.x
       /\ py = cur.data.y
       /\ psi = cur.data.psi
       /\ v = RMul(cur.data.throttle, Q(1, 10))

C8_Witness ==
    /\ pc = "transform"
    /\ cur.data.speed = R(0)
    /\ cur.data.steering_angle # R(0)
    /\ cur.data.throttle # R(0)
    /\ cur.data.psi # R(0)

\* C9: the handler reads result only below its length L, and the lists mpc_x and
\* mpc_y it builds have n = (L - 2) / 2 entries each, result[2 + i] and
\* result[2 + n + i].
C9_ReadsInBounds ==
    "post" \in Range(stages) =>
        /\ ~oob
        /\ LET n == TrajectoryLen(Len(result))
           IN  /\ Len(msg.mpc_x) = n
               /\ Len(msg.mpc_y) = n
               /\ \A i \in 1..n : /\ msg.mpc_x[i] = result[2 + i]
                                  /\ msg.mpc_y[i] = result[2 + n + i]

\* C10: once the handling of a message has ended, the replies are decided by its
\* text: one "steer" for a framed telemetry event, one "manual" (and no solve) when
\* hasData is empty, none otherwise.
C10_RepliesDecidedByText ==
    Ended =>
        LET t == cur.text
            framed == Len(t) > 2 /\ t[1] = "4" /\ t[2] = "2"
        IN  /\ Len(sent) <= 1
            /\ (framed /\ IsTelemetry(cur))
                  => (Len(sent) = 1 /\ sent[1].event = "steer")
            /\ (framed /\ hasData(t) = <<>>)
                  => (sent = <<ManualReply>> /\ "solve" \notin Range(stages))
            /\ (~framed \/ (hasData(t) # <<>> /\ JsonParse(hasData(t)).event = OtherEvent))
                  => sent = <<>>

=============================================================================
